---- MODULE Spec2Model ----
(***************************************************************************)
(* A model of telegram_bot.py (AstroGrannyBot): the date and time          *)
(* validators, the natal chart calculation and the conversation handlers   *)
(* that fill context.user_data step by step.                               *)
(*                                                                         *)
(* Texts are sequences of one-character strings, so that parsing is        *)
(* computed character by character, as the regular expressions of the      *)
(* source do.  Floats (coordinates, degrees, julian days) are integers:    *)
(* degrees of arc, and minutes of time for julian days.                    *)
(***************************************************************************)
EXTENDS Integers, Sequences, FiniteSets, TLC

VARIABLES
    user_data,   \* context.user_data of each user: a dict, as a function on its keys
    topo,        \* the observer set by swe.set_topo (process-wide), or None
    last,        \* the event handled last: who, what, the session before it, the reply, the calls
    accepted,    \* per user, the texts that filled a birth field since the last new_chart
    keyboard,    \* TRUE once the inline keyboard of a chart has been sent
    call,        \* a direct call of a function: function, argument, result
    passes,      \* per user, the position of the handler computing a chart, step by step
    running      \* the user whose handler holds the event loop, or None

vars == <<user_data, topo, last, accepted, keyboard, call, passes, running>>

None == "None"

(***************************************************************************)
(* Characters and numbers                                                  *)
(***************************************************************************)
Digits == <<"0", "1", "2", "3", "4", "5", "6", "7", "8", "9">>

D09 == {Digits[i] : i \in 1..10}
D19 == D09 \ {"0"}
Whitespace == {" ", "\n"}

DigitVal(c) == (CHOOSE i \in 1..10 : Digits[i] = c) - 1

\* s[i], or "" past either end
At(s, i) == IF i \in 1..Len(s) THEN s[i] ELSE ""

Slice(s, from, to) == IF to < from THEN <<>> ELSE SubSeq(s, from, to)

\* str(n) for n >= 0, as an f-string formats an int
RECURSIVE FmtInt(_)
FmtInt(n) == IF n < 10 THEN <<Digits[n + 1]>>
             ELSE FmtInt(n \div 10) \o <<Digits[(n % 10) + 1]>>

\* n written with at least w digits, zero padded
RECURSIVE FmtPad(_, _)
FmtPad(n, w) == LET s == FmtInt(n)
                IN  IF Len(s) >= w THEN s ELSE <<"0">> \o FmtPad(n, w - 1)
                \* FmtPad(n, w-1) pads to w-1, one more "0" pads to w

\* the value of a text of digits
RECURSIVE DigitsVal(_)
DigitsVal(s) == IF s = <<>> THEN 0
                ELSE 10 * DigitsVal(Slice(s, 1, Len(s) - 1)) + DigitVal(s[Len(s)])

\* str.strip() on whitespace, as int() does before converting
RECURSIVE Strip(_)
Strip(s) == IF s = <<>> THEN s
            ELSE IF s[1] \in Whitespace THEN Strip(Tail(s))
            ELSE IF s[Len(s)] \in Whitespace THEN Strip(Slice(s, 1, Len(s) - 1))
            ELSE s

\* int(text): the value, or a ValueError
PyInt(s) == LET t == Strip(s)
            IN  IF t # <<>> /\ \A i \in 1..Len(t) : t[i] \in D09
                THEN [ok |-> TRUE, value |-> DigitsVal(t)]
                ELSE [ok |-> FALSE, value |-> 0]

\* text.split(sep), sep one character
RECURSIVE Split(_, _)
Split(s, sep) ==
    IF \A i \in 1..Len(s) : s[i] # sep THEN <<s>>
    ELSE LET i == CHOOSE k \in 1..Len(s) : s[k] = sep /\ \A j \in 1..(k - 1) : s[j] # sep
         IN  <<Slice(s, 1, i - 1)>> \o Split(Slice(s, i + 1, Len(s)), sep)

(***************************************************************************)
(* Regular expressions: a pattern is a sequence of items, an item a        *)
(* sequence of alternatives tried in order, an alternative a sequence of   *)
(* character classes.  ReMatch is re.match: it backtracks over the         *)
(* alternatives and returns the lengths matched by the items of the first  *)
(* path that matches the whole pattern at position p.                      *)
(***************************************************************************)
AltMatches(alt, s, p) == \A i \in 1..Len(alt) : At(s, p + i - 1) \in alt[i]

RECURSIVE ReMatch(_, _, _)
RECURSIVE TryAlts(_, _, _, _, _)
ReMatch(items, s, p) ==
    IF items = <<>> THEN [ok |-> TRUE, lens |-> <<>>]
    ELSE TryAlts(Head(items), 1, Tail(items), s, p)

TryAlts(alts, k, rest, s, p) ==
    IF k > Len(alts) THEN [ok |-> FALSE, lens |-> <<>>]
    ELSE IF ~AltMatches(alts[k], s, p) THEN TryAlts(alts, k + 1, rest, s, p)
    ELSE LET r == ReMatch(rest, s, p + Len(alts[k]))
         IN  IF r.ok THEN [ok |-> TRUE, lens |-> <<Len(alts[k])>> \o r.lens]
             ELSE TryAlts(alts, k + 1, rest, s, p)

Lit(c) == << <<{c}>> >>

RECURSIVE SumSeq(_)
SumSeq(q) == IF q = <<>> THEN 0 ELSE Head(q) + SumSeq(Tail(q))

\* the text matched by item i of a match found at position 1
Group(s, lens, i) ==
    LET from == 1 + SumSeq(Slice(lens, 1, i - 1))
    IN  Slice(s, from, from + lens[i] - 1)

\* the directives of datetime.strptime
Re_d == << <<{"3"}, {"0", "1"}>>, <<{"1", "2"}, D09>>, <<{"0"}, D19>>, <<D19>>, <<{" "}, D19>> >>
Re_m == << <<{"1"}, {"0", "1", "2"}>>, <<{"0"}, D19>>, <<D19>> >>
Re_Y == << <<D09, D09, D09, D09>> >>
Re_H == << <<{"2"}, {"0", "1", "2", "3"}>>, <<{"0", "1"}, D09>>, <<D09>> >>
Re_M == << <<{"0", "1", "2", "3", "4", "5"}, D09>>, <<D09>> >>
Re_S == << <<{"6"}, {"0", "1"}>>, <<{"0", "1", "2", "3", "4", "5"}, D09>>, <<D09>> >>
\* white space in a format is \s+; two characters at most here
Re_ws == << <<Whitespace, Whitespace>>, <<Whitespace>> >>

(***************************************************************************)
(* Calendar                                                                *)
(***************************************************************************)
IsLeap(y) == (y % 4 = 0) /\ ((y % 100 # 0) \/ (y % 400 = 0))

DaysInMonth(y, m) ==
    IF m = 2 THEN (IF IsLeap(y) THEN 29 ELSE 28)
    ELSE IF m \in {4, 6, 9, 11} THEN 30 ELSE 31

\* datetime(year, month, day) exists
IsDate(y, m, d) ==
    /\ y \in 1..9999
    /\ m \in 1..12
    /\ d \in 1..DaysInMonth(y, m)

(***************************************************************************)
(* Results of calls that may raise: raised is None or the exception class, *)
(* msg the text of the exception, value the value returned.                *)
(***************************************************************************)
NoValue == <<>>

Return(v) == [raised |-> None, msg |-> "", value |-> v]
Raise(cls, m) == [raised |-> cls, msg |-> m, value |-> NoValue]

\* the texts of the exceptions, named after what they say
MsgFutureYear == "date incorrect: this year has not come yet"
MsgDateFormat == "date incorrect: enter it in the format DD.MM.YYYY"
MsgTimeFormat == "time incorrect: enter it in the format HH:MM"
MsgPlaceNotFound == "no such city on the map: enter an existing city"
MsgTimezone == "cannot determine the timezone of the coordinates"
MsgStrptime == "time data does not match format"

CutoffYear == 2024

(***************************************************************************)
(* datetime.strptime(text, "%d.%m.%Y"): the format's regular expression    *)
(* must match at the start and consume the whole text, and the fields must *)
(* make a date.                                                            *)
(***************************************************************************)
strptime_date(s) ==
    LET m == ReMatch(<<Re_d, Lit("."), Re_m, Lit("."), Re_Y>>, s, 1)
    IN  IF ~m.ok THEN Raise("ValueError", MsgStrptime)
        ELSE IF SumSeq(m.lens) # Len(s) THEN Raise("ValueError", "unconverted data remains")
        ELSE LET d == PyInt(Group(s, m.lens, 1)).value
                 mo == PyInt(Group(s, m.lens, 3)).value
                 y == PyInt(Group(s, m.lens, 5)).value
             IN  IF IsDate(y, mo, d)
                 THEN Return([year |-> y, month |-> mo, day |-> d])
                 ELSE Raise("ValueError", "day or year is out of range")

\* the body of the try block of validate_date
validate_date_try(date_str) ==
    LET date == strptime_date(date_str)
    IN  IF date.raised # None THEN date
        ELSE IF date.value.year > CutoffYear THEN Raise("ValueError", MsgFutureYear)
        ELSE date

validate_date(date_str) ==
    LET r == validate_date_try(date_str)
    IN  IF r.raised = "ValueError" THEN Raise("ValueError", MsgDateFormat)
        ELSE r

(***************************************************************************)
(* validate_time: re.match(r"^[0-2][0-9]:[0-5][0-9]$"), where $ matches at *)
(* the end of the text and also just before a newline that ends it; then   *)
(* split(":") and int() of both parts, and the range check.                *)
(***************************************************************************)
Re_time == << << <<{"0", "1", "2"}>> >>, << <<D09>> >>, Lit(":"),
              << <<{"0", "1", "2", "3", "4", "5"}>> >>, << <<D09>> >> >>

DollarAt(s, p) == p = Len(s) + 1 \/ (p = Len(s) /\ s[p] = "\n")

re_match_time(time_str) ==
    LET m == ReMatch(Re_time, time_str, 1)
    IN  m.ok /\ DollarAt(time_str, 1 + SumSeq(m.lens))

validate_time(time_str) ==
    IF re_match_time(time_str)
    THEN LET parts == Split(time_str, ":")
             hours == PyInt(parts[1]).value
             minutes == PyInt(parts[2]).value
         IN  IF 0 <= hours /\ hours <= 23 /\ 0 <= minutes /\ minutes <= 59
             THEN Return(<<hours, minutes>>)
             ELSE Raise("ValueError", MsgTimeFormat)
    ELSE Raise("ValueError", MsgTimeFormat)

(***************************************************************************)
(* The collaborators.  The geocoder, the timezone finder, pytz, the Swiss  *)
(* Ephemeris and the descriptions database are outside the repository:     *)
(* each is a fixed function here, with the outcomes its caller handles.    *)
(***************************************************************************)
Txt_Msk == <<"M", "s", "k">>       \* a city with a timezone east of Greenwich
Txt_Lima == <<"L", "i", "m", "a">> \* a city with a timezone west of Greenwich
Txt_Nemo == <<"N", "e", "m", "o">> \* a place the geocoder finds, in no timezone
Txt_Oz == <<"O", "z">>             \* a place the geocoder does not find

\* geolocator.geocode(city_name): <<latitude, longitude>>, or <<>> for None
geocode(city_name) ==
    CASE city_name = Txt_Msk -> <<56, 38>>
      [] city_name = Txt_Lima -> <<-12, -77>>
      [] city_name = Txt_Nemo -> <<-49, -123>>
      [] OTHER -> <<>>

\* tf.timezone_at(lat, lng): a zone name, or None
timezone_at(latitude, longitude) ==
    CASE <<latitude, longitude>> = <<56, 38>> -> "Europe/Moscow"
      [] <<latitude, longitude>> = <<-12, -77>> -> "America/Lima"
      [] OTHER -> None

\* the offset from UTC, in minutes, that pytz gives a local time of the zone
utcoffset(timezone_str) == IF timezone_str = "Europe/Moscow" THEN 180 ELSE -300

\* swe.julday(year, month, day, hour) of the Gregorian calendar: the julian
\* day is day - 1/2 + minute/1440
DayNumber(y, m, d) ==
    LET a == (14 - m) \div 12
        yy == y + 4800 - a
        mm == m + 12 * a - 3
    IN  d + (153 * mm + 2) \div 5 + 365 * yy + yy \div 4 - yy \div 100 + yy \div 400 - 32045

julday(y, m, d, minute_of_day) == [day |-> DayNumber(y, m, d), minute |-> minute_of_day]

\* swe.calc_ut(julian_day, planet_index)[0][0]: a longitude in [0, 360)
calc_ut(julian_day, planet_index) ==
    (julian_day.day * (planet_index + 1) + julian_day.minute \div 4 + 31 * planet_index) % 360

\* swe.houses(julian_day, latitude, longitude, b'P')[1][0]: the ascendant
houses(julian_day, latitude, longitude) ==
    (julian_day.day + julian_day.minute \div 4 + longitude + 2 * latitude + 720) % 360

NotFound == <<"description not found">>

\* cursor.fetchone() of the SELECT: <<description>>, or <<>> for no row
fetchone(planet, zodiac_sign) ==
    IF planet = "Pluton" \/ (planet = "Astsendent" /\ zodiac_sign \in {"Oven", "Lev", "Strelets"})
    THEN <<>>
    ELSE << <<"description of", planet, zodiac_sign>> >>

(***************************************************************************)
(* The chart calculation.  Each function also gives the calls it has made  *)
(* to the collaborators, in order: the function called, the julian day     *)
(* passed to it (NoJd if it takes none) and the planet index (0 if none).  *)
(***************************************************************************)
NoJd == [day |-> 0, minute |-> 0]

CallOf(fn, julian_day, planet_index) ==
    [fn |-> fn, julian_day |-> julian_day, planet_index |-> planet_index]

get_coordinates(city_name) ==
    LET location == geocode(city_name)
    IN  IF location # <<>> THEN Return(location)
        ELSE Raise("ValueError", MsgPlaceNotFound)

get_timezone(latitude, longitude) == timezone_at(latitude, longitude)

signs == <<"Oven", "Telets", "Bliznetsy", "Rak", "Lev", "Deva",
           "Vesy", "Skorpion", "Strelets", "Kozerog", "Vodoley", "Ryby">>

\* get_zodiac_sign rounding to the nearest band in place of int(degree // 30)
get_zodiac_sign_round(degree) == signs[(((degree + 15) \div 30) % 12) + 1]

get_zodiac_sign(degree) == signs[(degree \div 30) + 1]

\* get_planet_description without the fallback: no row gives an empty text
get_planet_description_no_fallback(planet, zodiac_sign) ==
    LET result == fetchone(planet, zodiac_sign)
    IN  IF result # <<>> THEN result[1] ELSE <<>>

get_planet_description(planet, zodiac_sign) ==
    LET result == fetchone(planet, zodiac_sign)
    IN  IF result # <<>> THEN result[1] ELSE NotFound

planets == <<"Solntse", "Luna", "Merkuriy", "Venera", "Mars",
             "Yupiter", "Saturn", "Uran", "Neptun", "Pluton">>

PlanetNames == {planets[i] : i \in 1..Len(planets)}

\* datetime.strptime(date_str, "%Y-%m-%d %H:%M:%S") of the f-string
\* f"{year}-{month}-{day} {hour}:{minute}:00"
strptime_iso(year, month, day, hour, minute) ==
    LET date_str == FmtInt(year) \o <<"-">> \o FmtInt(month) \o <<"-">> \o FmtInt(day)
                    \o <<" ">> \o FmtInt(hour) \o <<":">> \o FmtInt(minute) \o <<":", "0", "0">>
        m == ReMatch(<<Re_Y, Lit("-"), Re_m, Lit("-"), Re_d, Re_ws,
                       Re_H, Lit(":"), Re_M, Lit(":"), Re_S>>, date_str, 1)
    IN  IF ~m.ok THEN Raise("ValueError", MsgStrptime)
        ELSE IF SumSeq(m.lens) # Len(date_str)
             THEN Raise("ValueError", "unconverted data remains")
        ELSE Return([year |-> PyInt(Group(date_str, m.lens, 1)).value,
                     month |-> PyInt(Group(date_str, m.lens, 3)).value,
                     day |-> PyInt(Group(date_str, m.lens, 5)).value,
                     hour |-> PyInt(Group(date_str, m.lens, 7)).value,
                     minute |-> PyInt(Group(date_str, m.lens, 9)).value])

\* the julian day calculate_planet_positions uses: of the birth time as given
planets_julian_day(dt) == julday(dt.year, dt.month, dt.day, 60 * dt.hour + dt.minute)

\* one entry of planet_positions
planet_entry(julian_day, planet_index) ==
    LET degree == calc_ut(julian_day, planet_index)
        zodiac_sign == get_zodiac_sign(degree)
    IN  [degree |-> degree, zodiac_sign |-> zodiac_sign,
         description |-> get_planet_description(planets[planet_index + 1], zodiac_sign)]

\* the calls of the loop over planets: calc_ut, then the SELECT, per planet
planet_calls(julian_day) ==
    [k \in 1..(2 * Len(planets)) |->
        IF k % 2 = 1 THEN CallOf("calc_ut", julian_day, (k - 1) \div 2)
        ELSE CallOf("fetchone", NoJd, (k - 2) \div 2)]

\* calculate_planet_positions: value is the dict planet_positions; topo is
\* the observer it has set when it returns or raises, <<>> if it set none
calculate_planet_positions(year, month, day, hour, minute, latitude, longitude) ==
    LET dt == strptime_iso(year, month, day, hour, minute)
    IN  IF dt.raised # None
        THEN [dt EXCEPT !.value = NoValue] @@ [topo |-> <<>>, calls |-> <<>>]
        ELSE LET julian_day == planets_julian_day(dt.value)
             IN  Return([name \in PlanetNames |->
                            planet_entry(julian_day,
                                         (CHOOSE i \in 1..Len(planets) : planets[i] = name) - 1)])
                 @@ [topo |-> <<longitude, latitude, 0>>,
                     calls |-> <<CallOf("set_topo", NoJd, 0)>>
                               \o planet_calls(julian_day)]

\* the julian day calculate_ascendant uses: of the birth time localized to
\* the timezone and converted to UTC
ascendant_julian_day(year, month, day, hour, minute, timezone_str) ==
    LET utc == 60 * hour + minute - utcoffset(timezone_str)
        shift == IF utc < 0 THEN -1 ELSE IF utc >= 1440 THEN 1 ELSE 0
    IN  [day |-> DayNumber(year, month, day) + shift, minute |-> utc - 1440 * shift]

\* calculate_ascendant: value is <<ascendant_degree, ascendant_sign>>
calculate_ascendant(year, month, day, hour, minute, latitude, longitude) ==
    LET timezone_str == get_timezone(latitude, longitude)
    IN  IF timezone_str = None
        THEN Raise("ValueError", MsgTimezone) @@ [calls |-> <<CallOf("timezone_at", NoJd, 0)>>]
        ELSE LET julian_day == ascendant_julian_day(year, month, day, hour, minute, timezone_str)
                 ascendant_degree == houses(julian_day, latitude, longitude)
             IN  Return(<<ascendant_degree, get_zodiac_sign(ascendant_degree)>>)
                 @@ [calls |-> <<CallOf("timezone_at", NoJd, 0),
                                 CallOf("houses", julian_day, 0)>>]

(***************************************************************************)
(* The handlers.  A handler is an operator from the user's dict (and the   *)
(* event) to its outcome: the dict after it, the observer it has set (<<>> *)
(* if none), the message it sends, whether it sends the inline keyboard,   *)
(* and the exception that leaves it (None if none).                        *)
(***************************************************************************)
EmptyDict == [k \in {} |-> None]

Put(d, k, v) == [x \in DOMAIN d \cup {k} |-> IF x = k THEN v ELSE d[x]]

Has(d, k) == k \in DOMAIN d

Greeting == "hello, press /next to begin"
PromptDate == "enter your birth date in the format DD.MM.YYYY:"
PromptTime == "enter the birth time in the format HH:MM:"
PromptPlace == "enter the birth place (city):"
ChartDone == "your natal chart is made, choose a position:"
PositionText == "position"     \* edit_message_text(response), response in position

NoPosition == [label |-> "", degree |-> 0, zodiac_sign |-> "", description |-> <<>>]

Outcome(ud, tp, msg, pos, kb, exc) ==
    [user_data |-> ud, topo |-> tp, msg |-> msg, position |-> pos,
     keyboard |-> kb, raised |-> exc, calls |-> <<>>]

\* the outcome o of a handler that has made the calls
Calling(o, calls) == [o EXCEPT !.calls = calls]

\* start and next reply and touch nothing
start(ud) == Outcome(ud, <<>>, Greeting, NoPosition, FALSE, None)

next(ud) == Outcome(ud, <<>>, PromptDate, NoPosition, FALSE, None)

\* the branch of handle_message taken when birth_date and birth_time are
\* stored and birth_place is not
handle_place(ud, text) ==
    LET coords == get_coordinates(text)
        geo == <<CallOf("geocode", NoJd, 0)>>
    IN  IF coords.raised # None
        THEN Calling(Outcome(ud, <<>>, coords.msg, NoPosition, FALSE, None), geo)
        ELSE
        LET ud1 == Put(ud, "birth_place", coords.value)
            birth_date == ud1["birth_date"]
            hour == ud1["birth_time"][1]
            minute == ud1["birth_time"][2]
            latitude == ud1["birth_place"][1]
            longitude == ud1["birth_place"][2]
            pl == calculate_planet_positions(birth_date.year, birth_date.month,
                                             birth_date.day, hour, minute,
                                             latitude, longitude)
            asc == calculate_ascendant(birth_date.year, birth_date.month,
                                       birth_date.day, hour, minute,
                                       latitude, longitude)
        IN  IF pl.raised # None
            THEN Calling(Outcome(ud1, pl.topo, pl.msg, NoPosition, FALSE, None),
                         geo \o pl.calls)
            ELSE IF asc.raised # None
            THEN Calling(Outcome(ud1, pl.topo, asc.msg, NoPosition, FALSE, None),
                         geo \o pl.calls \o asc.calls)
            ELSE Calling(Outcome(Put(Put(ud1, "nat_chart", pl.value), "ascendant",
                             [degree |-> asc.value[1], zodiac_sign |-> asc.value[2],
                              description |->
                                  get_planet_description("Astsendent", asc.value[2])]),
                         pl.topo, ChartDone, NoPosition, TRUE, None),
                         geo \o pl.calls \o asc.calls \o <<CallOf("fetchone", NoJd, 0)>>)

\* the branch taken when birth_date is not stored
handle_date(ud, text) ==
    LET valid_date == validate_date(text)
    IN  IF valid_date.raised # None
        THEN Outcome(ud, <<>>, valid_date.msg, NoPosition, FALSE, None)
        ELSE Outcome(Put(ud, "birth_date", valid_date.value), <<>>, PromptTime,
                     NoPosition, FALSE, None)

\* handle_time answering a text that is no time with the prompt for a time
handle_time_prompt_again(ud, text) ==
    LET t == validate_time(text)
    IN  IF t.raised # None
        THEN Outcome(ud, <<>>, PromptTime, NoPosition, FALSE, None)
        ELSE Outcome(Put(ud, "birth_time", t.value), <<>>, PromptPlace,
                     NoPosition, FALSE, None)

\* the branch taken when birth_date is stored and birth_time is not
handle_time(ud, text) ==
    LET t == validate_time(text)
    IN  IF t.raised # None
        THEN Outcome(ud, <<>>, t.msg, NoPosition, FALSE, None)
        ELSE Outcome(Put(ud, "birth_time", t.value), <<>>, PromptPlace,
                     NoPosition, FALSE, None)

handle_message(ud, text) ==
    IF ~Has(ud, "birth_date") THEN handle_date(ud, text)
    ELSE IF ~Has(ud, "birth_time") THEN handle_time(ud, text)
    ELSE IF ~Has(ud, "birth_place") THEN handle_place(ud, text)
    ELSE Outcome(ud, <<>>, "", NoPosition, FALSE, None)

Labels == PlanetNames \cup {"Astsendent"}

\* button_select taking the entry out of the dict (pop) when it shows it
button_select_pop(ud, data) ==
    IF data = "Astsendent"
    THEN IF ~Has(ud, "ascendant")
         THEN Outcome(ud, <<>>, "", NoPosition, FALSE, "KeyError")
         ELSE Outcome([k \in DOMAIN ud \ {"ascendant"} |-> ud[k]], <<>>, PositionText,
                      [label |-> data] @@ ud["ascendant"], FALSE, None)
    ELSE IF ~Has(ud, "nat_chart")
         THEN Outcome(ud, <<>>, "", NoPosition, FALSE, "KeyError")
         ELSE Outcome(Put(ud, "nat_chart",
                          [n \in DOMAIN ud["nat_chart"] \ {data} |-> ud["nat_chart"][n]]),
                      <<>>, PositionText,
                      [label |-> data] @@ ud["nat_chart"][data], FALSE, None)

\* button_select reading the dict with get and a default, so that a missing
\* chart shows an empty position instead of raising KeyError
button_select_default(ud, data) ==
    IF data = "Astsendent"
    THEN Outcome(ud, <<>>, PositionText,
                 IF Has(ud, "ascendant") THEN [label |-> data] @@ ud["ascendant"]
                 ELSE [NoPosition EXCEPT !.label = data], FALSE, None)
    ELSE Outcome(ud, <<>>, PositionText,
                 IF Has(ud, "nat_chart") THEN [label |-> data] @@ ud["nat_chart"][data]
                 ELSE [NoPosition EXCEPT !.label = data], FALSE, None)

\* the else branch of button_callback: a planet or the ascendant is chosen
button_select(ud, data) ==
    IF data = "Astsendent"
    THEN IF ~Has(ud, "ascendant")
         THEN Outcome(ud, <<>>, "", NoPosition, FALSE, "KeyError")
         ELSE Outcome(ud, <<>>, PositionText,
                      [label |-> data] @@ ud["ascendant"], FALSE, None)
    ELSE IF ~Has(ud, "nat_chart")
         THEN Outcome(ud, <<>>, "", NoPosition, FALSE, "KeyError")
         ELSE Outcome(ud, <<>>, PositionText,
                      [label |-> data] @@ ud["nat_chart"][data], FALSE, None)

\* button_callback deleting the three birth fields instead of clearing the dict
button_callback_del_fields(ud, data) ==
    IF data = "new_chart"
    THEN Outcome([k \in DOMAIN ud \ {"birth_date", "birth_time", "birth_place"} |-> ud[k]],
                 <<>>, PromptDate, NoPosition, FALSE, None)
    ELSE button_select(ud, data)

\* button_callback deleting birth_date only, the key handle_message tests first
button_callback_del_date(ud, data) ==
    IF data = "new_chart"
    THEN Outcome([k \in DOMAIN ud \ {"birth_date"} |-> ud[k]],
                 <<>>, PromptDate, NoPosition, FALSE, None)
    ELSE button_select(ud, data)

\* button_callback deleting the chart only
button_callback_del_chart(ud, data) ==
    IF data = "new_chart"
    THEN Outcome([k \in DOMAIN ud \ {"nat_chart", "ascendant"} |-> ud[k]],
                 <<>>, PromptDate, NoPosition, FALSE, None)
    ELSE button_select(ud, data)

button_callback(ud, data) ==
    IF data = "new_chart"
    THEN Outcome(EmptyDict, <<>>, PromptDate, NoPosition, FALSE, None)
    ELSE button_select(ud, data)

(***************************************************************************)
(* The texts users send                                                    *)
(***************************************************************************)
DateText(d, wd, m, wm, y, wy) ==
    FmtPad(d, wd) \o <<".">> \o FmtPad(m, wm) \o <<".">> \o FmtPad(y, wy)

TimeText(h, wh, m, wm) == FmtPad(h, wh) \o <<":">> \o FmtPad(m, wm)

Txt_Leap == DateText(29, 2, 2, 2, 2024, 4)     \* "29.02.2024"
Txt_Short == DateText(1, 1, 1, 1, 2020, 4)     \* "1.1.2020"
Txt_Future == DateText(1, 2, 1, 2, 2025, 4)    \* "01.01.2025"
Txt_Old == DateText(1, 2, 1, 2, 999, 4)        \* "01.01.0999"
Txt_1430 == TimeText(14, 2, 30, 2)             \* "14:30"
Txt_2400 == TimeText(24, 2, 0, 2)              \* "24:00"

DateInputs == {Txt_Leap, Txt_Short, Txt_Future, Txt_Old}
TimeInputs == {Txt_1430, Txt_2400}
PlaceInputs == {Txt_Msk, Txt_Lima, Txt_Nemo, Txt_Oz}
Texts == DateInputs \cup TimeInputs \cup PlaceInputs

Users == {"u1", "u2"}

(***************************************************************************)
(* The conversation: one action per handler, each handling one update of   *)
(* one user to its end.                                                    *)
(***************************************************************************)
\* a handler that is not running: no observer set, no body position read
IdlePass == [pc |-> "idle", observer |-> <<>>, sets |-> 0, reads |-> <<>>,
             date |-> <<>>, raised |-> None]

NoPasses ==
    /\ passes = [u \in Users |-> IdlePass]
    /\ running = None

NoCall == [fn |-> None, arg |-> <<>>, ret |-> Return(NoValue), pc |-> "none"]

Event(u, kind, text, data, pre, o) ==
    [user |-> u, kind |-> kind, text |-> text, data |-> data, pre |-> pre,
     msg |-> o.msg, position |-> o.position, raised |-> o.raised, calls |-> o.calls]

Init ==
    /\ user_data = [u \in Users |-> EmptyDict]
    /\ topo = <<>>
    /\ last = Event(None, "init", <<>>, "", EmptyDict,
                    Outcome(EmptyDict, <<>>, "", NoPosition, FALSE, None))
    /\ accepted = [u \in Users |-> <<>>]
    /\ keyboard = FALSE
    /\ call = NoCall
    /\ NoPasses

BirthFields(d) == DOMAIN d \cap {"birth_date", "birth_time", "birth_place"}

\* Apply with one dict for all users (the module's user_data) in place of
\* the dict of the user
Apply_shared_dict(u, kind, text, data, o) ==
    /\ user_data' = [v \in Users |-> o.user_data]
    /\ topo' = IF o.topo # <<>> THEN o.topo ELSE topo
    /\ last' = Event(u, kind, text, data, user_data[u], o)
    /\ accepted' = [accepted EXCEPT ![u] =
                       IF kind = "button" /\ data = "new_chart" THEN <<>>
                       ELSE IF kind = "text" /\ BirthFields(o.user_data) # BirthFields(user_data[u])
                            THEN Append(@, text)
                            ELSE @]
    /\ keyboard' = (keyboard \/ o.keyboard)
    /\ UNCHANGED <<call, passes, running>>

\* the effect of a handler's outcome o on the state, for user u
Apply(u, kind, text, data, o) ==
    /\ user_data' = [user_data EXCEPT ![u] = o.user_data]
    /\ topo' = IF o.topo # <<>> THEN o.topo ELSE topo
    /\ last' = Event(u, kind, text, data, user_data[u], o)
    /\ accepted' = [accepted EXCEPT ![u] =
                       IF kind = "button" /\ data = "new_chart" THEN <<>>
                       ELSE IF kind = "text" /\ BirthFields(o.user_data) # BirthFields(user_data[u])
                            THEN Append(@, text)
                            ELSE @]
    /\ keyboard' = (keyboard \/ o.keyboard)
    /\ UNCHANGED <<call, passes, running>>

Start(u) == Apply(u, "start", <<>>, "", start(user_data[u]))

NextCommand(u) == Apply(u, "next", <<>>, "", next(user_data[u]))

HandleMessage(u, text) == Apply(u, "text", text, "", handle_message(user_data[u], text))

ButtonCallback(u, data) ==
    /\ keyboard
    /\ Apply(u, "button", <<>>, data, button_callback(user_data[u], data))

Next ==
    \/ \E u \in Users : Start(u)
    \/ \E u \in Users : NextCommand(u)
    \/ \E u \in Users, text \in Texts : HandleMessage(u, text)
    \/ \E u \in Users, data \in Labels \cup {"new_chart"} : ButtonCallback(u, data)

Spec == Init /\ [][Next]_vars

(***************************************************************************)
(* The validators called directly, on texts built from a day, a month and  *)
(* a year (an hour and a minute) written with or without leading zeros,    *)
(* with either separator, and with a character before or after.            *)
(***************************************************************************)
MaxDay == 32
MaxMonth == 13
YearsPast == 2
MaxHour == 30
MaxMinute == 61

Years == {0, 999, 1900, 2000} \cup ((CutoffYear - 1)..(CutoffYear + YearsPast))

Affixes == {<< <<>>, <<>> >>, << <<" ">>, <<>> >>, << <<>>, <<" ">> >>,
            << <<>>, <<"\n">> >>, << <<>>, <<"x">> >>}

DateTexts ==
    {a[1] \o FmtPad(d, wd) \o <<sep>> \o FmtPad(m, wm) \o <<sep>> \o FmtPad(y, wy) \o a[2] :
        d \in 0..MaxDay, wd \in {1, 2}, m \in 0..MaxMonth, wm \in {1, 2},
        y \in Years, wy \in {1, 4}, sep \in {".", "-"}, a \in Affixes}

TimeTexts ==
    {a[1] \o FmtPad(h, wh) \o <<sep>> \o FmtPad(m, wm) \o a[2] :
        h \in 0..MaxHour, wh \in {1, 2}, m \in 0..MaxMinute, wm \in {1, 2},
        sep \in {":", "."}, a \in Affixes}

InitCall(fn, args) ==
    /\ user_data = [u \in Users |-> EmptyDict]
    /\ topo = <<>>
    /\ last = Event(None, "init", <<>>, "", EmptyDict,
                    Outcome(EmptyDict, <<>>, "", NoPosition, FALSE, None))
    /\ accepted = [u \in Users |-> <<>>]
    /\ keyboard = FALSE
    /\ NoPasses
    /\ \E t \in args : call = [fn |-> fn, arg |-> t, ret |-> Return(NoValue), pc |-> "call"]

CallValidateDate ==
    /\ call.pc = "call" /\ call.fn = "validate_date"
    /\ call' = [call EXCEPT !.ret = validate_date(call.arg), !.pc = "done"]
    /\ UNCHANGED <<user_data, topo, last, accepted, keyboard, passes, running>>

CallValidateTime ==
    /\ call.pc = "call" /\ call.fn = "validate_time"
    /\ call' = [call EXCEPT !.ret = validate_time(call.arg), !.pc = "done"]
    /\ UNCHANGED <<user_data, topo, last, accepted, keyboard, passes, running>>

InitDate == InitCall("validate_date", DateTexts)
NextDate == CallValidateDate
SpecDate == InitDate /\ [][NextDate]_vars

InitTime == InitCall("validate_time", TimeTexts)
NextTime == CallValidateTime
SpecTime == InitTime /\ [][NextTime]_vars

\* the text is two digits, a dot, two digits, a dot, four digits
StrictDateForm(s) ==
    /\ Len(s) = 10
    /\ s[3] = "." /\ s[6] = "."
    /\ \A i \in {1, 2, 4, 5, 7, 8, 9, 10} : s[i] \in D09

StrictDay(s) == DigitsVal(SubSeq(s, 1, 2))
StrictMonth(s) == DigitsVal(SubSeq(s, 4, 5))
StrictYear(s) == DigitsVal(SubSeq(s, 7, 10))

\* the text is a strict DD.MM.YYYY that denotes an existing calendar date
StrictDate(s) ==
    /\ StrictDateForm(s)
    /\ IsDate(StrictYear(s), StrictMonth(s), StrictDay(s))

\* the text is two digits, a colon, two digits
StrictTimeForm(s) ==
    /\ Len(s) = 5
    /\ s[3] = ":"
    /\ \A i \in {1, 2, 4, 5} : s[i] \in D09

DateCallDone == call.pc = "done" /\ call.fn = "validate_date"
TimeCallDone == call.pc = "done" /\ call.fn = "validate_time"

(***************************************************************************)
(* The states of a session, told from the fields its dict holds            *)
(***************************************************************************)
HasChart(d) == Has(d, "nat_chart") \/ Has(d, "ascendant")

StateOf(d) ==
    CASE DOMAIN d = {} -> "AwaitingDate"
      [] DOMAIN d = {"birth_date"} -> "AwaitingTime"
      [] DOMAIN d = {"birth_date", "birth_time"} -> "AwaitingPlace"
      [] DOMAIN d = {"birth_date", "birth_time", "birth_place", "nat_chart", "ascendant"}
            -> "ChartReady"
      [] OTHER -> "NoState"

Successor(state) ==
    CASE state = "AwaitingDate" -> "AwaitingTime"
      [] state = "AwaitingTime" -> "AwaitingPlace"
      [] state = "AwaitingPlace" -> "ChartReady"
      [] OTHER -> state

\* the session of the user of the last event, after the event
Post == user_data[last.user]

TextEvent == last.kind = "text"
ResetEvent == last.kind = "button" /\ last.data = "new_chart"

\* both lookups of the geo resolver succeed for the place
Resolvable(text) ==
    /\ geocode(text) # <<>>
    /\ get_timezone(geocode(text)[1], geocode(text)[2]) # None

(***************************************************************************)
(* The claims                                                              *)
(***************************************************************************)

\* C1: a text handled in AwaitingPlace whose coordinate lookup fails, or whose
\* timezone resolution fails, leaves the session identical: still
\* AwaitingPlace, no place, no planet positions, no ascendant.
C1_FailedPlaceKeepsSession ==
    (TextEvent /\ StateOf(last.pre) = "AwaitingPlace" /\ ~Resolvable(last.text))
        => /\ Post = last.pre
           /\ StateOf(Post) = "AwaitingPlace"
           /\ ~Has(Post, "birth_place") /\ ~HasChart(Post)

\* C2: after an error at a collection step (date format, future year, time
\* format, place not found, timezone unknown) the session is still in that
\* collection step, so a later valid input for the step advances it.
C2_ErrorKeepsStep ==
    (TextEvent /\ last.msg \in {MsgDateFormat, MsgFutureYear, MsgTimeFormat,
                                MsgPlaceNotFound, MsgTimezone})
        => /\ StateOf(last.pre) \in {"AwaitingDate", "AwaitingTime", "AwaitingPlace"}
           /\ StateOf(Post) = StateOf(last.pre)

\* C3: a session that holds planet positions or an ascendant holds a validated
\* birth date, a validated birth time and resolved coordinates.
C3_ChartImpliesInputs ==
    \A u \in Users :
        HasChart(user_data[u]) =>
            /\ {"birth_date", "birth_time", "birth_place"} \subseteq DOMAIN user_data[u]
            /\ LET d == user_data[u]["birth_date"]
                   t == user_data[u]["birth_time"]
               IN  /\ IsDate(d.year, d.month, d.day) /\ d.year <= CutoffYear
                   /\ t[1] \in 0..23 /\ t[2] \in 0..59
            /\ \E text \in PlaceInputs :
                   geocode(text) # <<>> /\ user_data[u]["birth_place"] = geocode(text)

C3_Witness ==
    /\ last.kind = "button" /\ last.data = "Luna" /\ last.raised = None
    /\ HasChart(Post)
    /\ accepted[last.user] = <<Txt_Short, Txt_1430, Txt_Lima>>

\* the chart the calculation gives for three texts
ChartFrom(texts) ==
    LET d == validate_date(texts[1]).value
        t == validate_time(texts[2]).value
        c == geocode(texts[3])
        asc == calculate_ascendant(d.year, d.month, d.day, t[1], t[2], c[1], c[2]).value
    IN  [nat_chart |->
            calculate_planet_positions(d.year, d.month, d.day, t[1], t[2], c[1], c[2]).value,
         ascendant |-> [degree |-> asc[1], zodiac_sign |-> asc[2],
                        description |-> get_planet_description("Astsendent", asc[2])]]

\* C4: "new chart" from any state leaves the session empty, in AwaitingDate,
\* and a chart a session holds is the chart of the three texts supplied since
\* the last "new chart".
C4_ResetClearsAll ==
    /\ ResetEvent => (Post = EmptyDict /\ StateOf(Post) = "AwaitingDate")
    /\ \A u \in Users :
           HasChart(user_data[u]) =>
               /\ Len(accepted[u]) = 3
               /\ user_data[u]["nat_chart"] = ChartFrom(accepted[u]).nat_chart
               /\ user_data[u]["ascendant"] = ChartFrom(accepted[u]).ascendant

C4_Witness ==
    /\ ResetEvent
    /\ StateOf(last.pre) = "ChartReady"
    /\ Post = EmptyDict
    /\ \E u \in Users : u # last.user /\ StateOf(user_data[u]) = "ChartReady"

\* C5: every event leaves the state unchanged, advances it to its immediate
\* successor, or (on reset) returns it to AwaitingDate; the states are the four
\* of the sequence, and a text received in ChartReady changes nothing.
C5_ForwardOrder ==
    last.kind # "init" =>
        /\ StateOf(Post) \in {"AwaitingDate", "AwaitingTime", "AwaitingPlace", "ChartReady"}
        /\ \/ StateOf(Post) = StateOf(last.pre)
           \/ StateOf(Post) = Successor(StateOf(last.pre))
           \/ ResetEvent /\ StateOf(Post) = "AwaitingDate"
        /\ (TextEvent /\ StateOf(last.pre) = "ChartReady") => Post = last.pre

\* C6: a fresh session is in AwaitingDate; after a valid date and a valid time
\* an unresolvable place leaves the session in AwaitingPlace with no chart, and
\* a resolvable place moves it to ChartReady with 10 body entries and an
\* ascendant entry.
C6_CollectionRun ==
    /\ last.kind = "init" => \A u \in Users : StateOf(user_data[u]) = "AwaitingDate"
    /\ (TextEvent /\ StateOf(last.pre) = "AwaitingPlace" /\ geocode(last.text) = <<>>)
           => (StateOf(Post) = "AwaitingPlace" /\ ~HasChart(Post))
    /\ (TextEvent /\ StateOf(last.pre) = "AwaitingPlace" /\ Resolvable(last.text))
           => /\ StateOf(Post) = "ChartReady"
              /\ Cardinality(DOMAIN Post["nat_chart"]) = 10
              /\ DOMAIN Post["ascendant"] = {"degree", "zodiac_sign", "description"}

\* C7: in AwaitingDate (AwaitingTime) a text the date (time) validator accepts
\* is stored and the session moves to AwaitingTime (AwaitingPlace); a text it
\* rejects leaves the session unchanged and the message sent is the
\* validator's message.
C7_ValidatorDecides ==
    /\ (TextEvent /\ StateOf(last.pre) = "AwaitingDate") =>
           LET r == validate_date(last.text)
           IN  IF r.raised = None
               THEN Post = Put(last.pre, "birth_date", r.value) /\ StateOf(Post) = "AwaitingTime"
               ELSE Post = last.pre /\ last.msg = r.msg
    /\ (TextEvent /\ StateOf(last.pre) = "AwaitingTime") =>
           LET r == validate_time(last.text)
           IN  IF r.raised = None
               THEN Post = Put(last.pre, "birth_time", r.value) /\ StateOf(Post) = "AwaitingPlace"
               ELSE Post = last.pre /\ last.msg = r.msg

C7_Witness ==
    /\ TextEvent /\ StateOf(last.pre) = "AwaitingTime"
    /\ last.text = Txt_2400
    /\ last.msg = MsgTimeFormat
    /\ Post = last.pre

\* C8: a well-formed calendar date whose year is past the cutoff fails with the
\* "year has not come yet" message; a text that does not parse as a calendar
\* date fails with the "enter it in DD.MM.YYYY format" message.
C8_TwoErrorKinds ==
    DateCallDone =>
        /\ (StrictDate(call.arg) /\ StrictYear(call.arg) > CutoffYear)
               => call.ret = Raise("ValueError", MsgFutureYear)
        /\ ~StrictDate(call.arg) /\ strptime_date(call.arg).raised # None
               => call.ret = Raise("ValueError", MsgDateFormat)

\* C9: validate_date accepts a text exactly when it is a strict DD.MM.YYYY
\* that denotes an existing calendar date with year <= 2024; a text that is
\* not of the strict form fails with the format message.
C9_AcceptsExactlyStrictDates ==
    DateCallDone =>
        /\ call.ret.raised = None <=>
               (StrictDate(call.arg) /\ StrictYear(call.arg) <= CutoffYear)
        /\ ~StrictDateForm(call.arg) => call.ret = Raise("ValueError", MsgDateFormat)

\* C10: validate_time accepts a text exactly when it is two digits, a colon and
\* two digits with hour 00..23 and minute 00..59, and returns the pair of
\* integers; every other text fails with the time format message.
C10_AcceptsExactlyStrictTimes ==
    TimeCallDone =>
        IF /\ StrictTimeForm(call.arg)
           /\ DigitsVal(SubSeq(call.arg, 1, 2)) <= 23
           /\ DigitsVal(SubSeq(call.arg, 4, 5)) <= 59
        THEN call.ret = Return(<<DigitsVal(SubSeq(call.arg, 1, 2)),
                                 DigitsVal(SubSeq(call.arg, 4, 5))>>)
        ELSE call.ret = Raise("ValueError", MsgTimeFormat)

SelectEvent == last.kind = "button" /\ last.data \in Labels

\* the entry of the chart of dict d that label names
Stored(d, label) == IF label = "Astsendent" THEN d["ascendant"] ELSE d["nat_chart"][label]

\* C12: in ChartReady, selecting a body or the ascendant emits the data stored
\* at chart creation, calls no collaborator and leaves the session unchanged;
\* the data emitted is that of the chart of the texts accepted since the last
\* reset, so selecting a label again emits the same data.
C12_SelectionShowsStored ==
    (SelectEvent /\ StateOf(last.pre) = "ChartReady") =>
        /\ last.raised = None /\ last.msg = PositionText
        /\ last.position = [label |-> last.data] @@ Stored(last.pre, last.data)
        /\ last.position = [label |-> last.data]
                           @@ Stored(ChartFrom(accepted[last.user]), last.data)
        /\ last.calls = <<>>
        /\ Post = last.pre

C12_Witness ==
    /\ SelectEvent /\ last.data = "Astsendent"
    /\ StateOf(last.pre) = "ChartReady"
    /\ last.position.degree = last.pre["ascendant"].degree
    /\ last.position.label = "Astsendent"

\* every chart held is the chart of the texts its own user had accepted
OwnChart ==
    \A u \in Users :
        HasChart(user_data[u]) =>
            /\ user_data[u]["nat_chart"] = ChartFrom(accepted[u]).nat_chart
            /\ user_data[u]["ascendant"] = ChartFrom(accepted[u]).ascendant

\* C13: an event of one user, whatever its outcome, leaves the session of
\* every other user unchanged, and the chart of a user is computed from that
\* user's inputs.
C13_SessionsIndependent ==
    /\ [][\A u \in Users : u # last'.user => user_data'[u] = user_data[u]]_vars
    /\ []OwnChart

C13_Witness ==
    /\ TextEvent /\ last.msg = MsgTimezone
    /\ \E u \in Users :
           /\ u # last.user
           /\ StateOf(user_data[u]) = "ChartReady"
           /\ accepted[u] # accepted[last.user]

IsEphemerisCall(c) == c.fn \in {"calc_ut", "houses"}

\* C14: a chart computation calls the ephemeris 10 times for the bodies 0..9,
\* in order, and once for the house cusps, each time with the julian day of the
\* birth time localized to the timezone of the birthplace and converted to UTC.
C14_OneJulianDay ==
    (TextEvent /\ StateOf(last.pre) = "AwaitingPlace" /\ StateOf(Post) = "ChartReady") =>
        LET d == Post["birth_date"]
            t == Post["birth_time"]
            c == Post["birth_place"]
            jd == ascendant_julian_day(d.year, d.month, d.day, t[1], t[2],
                                       get_timezone(c[1], c[2]))
            eph == SelectSeq(last.calls, IsEphemerisCall)
        IN  /\ Len(eph) = 11
            /\ \A i \in 1..10 : eph[i] = CallOf("calc_ut", jd, i - 1)
            /\ eph[11] = CallOf("houses", jd, 0)

\* the description the store gives, or the fallback text
Described(label, zodiac_sign) ==
    IF fetchone(label, zodiac_sign) = <<>> THEN NotFound
    ELSE fetchone(label, zodiac_sign)[1]

\* C15: an entry whose description the store lacks is stored with the fallback
\* text, and a place event that does not reach ChartReady has failed for
\* another reason: the place, the timezone or the date, never a description.
C15_FallbackDescription ==
    /\ \A u \in Users :
           HasChart(user_data[u]) =>
               \A label \in Labels :
                   Stored(user_data[u], label).description
                       = Described(label, Stored(user_data[u], label).zodiac_sign)
    /\ (TextEvent /\ StateOf(last.pre) = "AwaitingPlace" /\ StateOf(Post) # "ChartReady")
           => last.msg \in {MsgPlaceNotFound, MsgTimezone, MsgStrptime}

C15_Witness ==
    /\ TextEvent /\ StateOf(last.pre) = "AwaitingPlace" /\ StateOf(Post) = "ChartReady"
    /\ Post["nat_chart"]["Pluton"].description = NotFound
    /\ Post["nat_chart"]["Luna"].description # NotFound

\* C17: the fields filled are a prefix of (birth date, birth time, birth
\* place): a stored time implies a stored date, a stored place a stored time.
C17_FieldsFillInOrder ==
    \A u \in Users :
        /\ Has(user_data[u], "birth_time") => Has(user_data[u], "birth_date")
        /\ Has(user_data[u], "birth_place") => Has(user_data[u], "birth_time")

C17_Witness ==
    /\ ResetEvent /\ Has(last.pre, "birth_place")
    /\ \E u \in Users : u # last.user /\ StateOf(user_data[u]) = "AwaitingPlace"

\* C18: a body or ascendant selection received while the session holds no
\* chart emits no position data and leaves the session unchanged.
C18_SelectionWithoutChart ==
    (SelectEvent /\ ~HasChart(last.pre)) =>
        /\ Post = last.pre
        /\ last.position = NoPosition
        /\ last.msg = ""

C18_Witness ==
    /\ SelectEvent /\ last.data = "Luna"
    /\ StateOf(last.pre) = "AwaitingTime"
    /\ last.raised = "KeyError"
    /\ Post = last.pre

\* C19: /start and /next leave the session unchanged, and when the message a
\* handler has just sent asks for the birth date, the session is in
\* AwaitingDate.
C19_PromptNamesNextField ==
    /\ last.kind \in {"start", "next"} => Post = last.pre
    /\ (last.kind # "init" /\ last.msg = PromptDate) => StateOf(Post) = "AwaitingDate"

(***************************************************************************)
(* get_zodiac_sign and the chart functions that store its result, called   *)
(* on their own.  A degree is in 0 .. FullCircle - 1; a call of            *)
(* get_zodiac_sign may be followed by a call with a larger degree, whose   *)
(* record keeps the degree and sign of the call before it in prev.         *)
(***************************************************************************)
FullCircle == 360
MaxStep == 30
MaxChartDay == 15
MaxChartHour == 11

Degrees == 0..(FullCircle - 1)

ChartArgs ==
    {[year |-> CutoffYear - YearsPast, month |-> m, day |-> d, hour |-> h, minute |-> mi,
      latitude |-> c[1], longitude |-> c[2]] :
        m \in 1..12, d \in 1..MaxChartDay, h \in 0..MaxChartHour, mi \in {0, 30},
        c \in {geocode(Txt_Msk), geocode(Txt_Lima)}}

SignCall(fn, arg) ==
    [fn |-> fn, arg |-> arg, ret |-> Return(NoValue), pc |-> "call", prev |-> <<>>]

InitSign ==
    /\ user_data = [u \in Users |-> EmptyDict]
    /\ topo = <<>>
    /\ last = Event(None, "init", <<>>, "", EmptyDict,
                    Outcome(EmptyDict, <<>>, "", NoPosition, FALSE, None))
    /\ accepted = [u \in Users |-> <<>>]
    /\ keyboard = FALSE
    /\ NoPasses
    /\ \/ \E degree \in Degrees : call = SignCall("get_zodiac_sign", degree)
       \/ \E a \in ChartArgs : call = SignCall("calculate_planet_positions", a)
       \/ \E a \in ChartArgs : call = SignCall("calculate_ascendant", a)

CallZodiacSign ==
    /\ call.pc = "call" /\ call.fn = "get_zodiac_sign"
    /\ call' = [call EXCEPT !.ret = Return(get_zodiac_sign(call.arg)), !.pc = "done"]
    /\ UNCHANGED <<user_data, topo, last, accepted, keyboard, passes, running>>

CallZodiacSignAgain ==
    /\ call.pc = "done" /\ call.fn = "get_zodiac_sign"
    /\ \E step \in 1..MaxStep :
           /\ call.arg + step \in Degrees
           /\ call' = [call EXCEPT !.prev = <<[arg |-> call.arg, sign |-> call.ret.value]>>,
                                   !.arg = call.arg + step,
                                   !.ret = Return(NoValue),
                                   !.pc = "call"]
    /\ UNCHANGED <<user_data, topo, last, accepted, keyboard, passes, running>>

CallPlanetPositions ==
    /\ call.pc = "call" /\ call.fn = "calculate_planet_positions"
    /\ LET a == call.arg
       IN  call' = [call EXCEPT
                       !.ret = calculate_planet_positions(a.year, a.month, a.day, a.hour,
                                                          a.minute, a.latitude, a.longitude),
                       !.pc = "done"]
    /\ UNCHANGED <<user_data, topo, last, accepted, keyboard, passes, running>>

CallAscendant ==
    /\ call.pc = "call" /\ call.fn = "calculate_ascendant"
    /\ LET a == call.arg
       IN  call' = [call EXCEPT
                       !.ret = calculate_ascendant(a.year, a.month, a.day, a.hour,
                                                   a.minute, a.latitude, a.longitude),
                       !.pc = "done"]
    /\ UNCHANGED <<user_data, topo, last, accepted, keyboard, passes, running>>

NextSign == CallZodiacSign \/ CallZodiacSignAgain \/ CallPlanetPositions \/ CallAscendant
SpecSign == InitSign /\ [][NextSign]_vars

\* the place of a sign in the list, from 1
SignIndex(zodiac_sign) == CHOOSE i \in 1..Len(signs) : signs[i] = zodiac_sign

\* zodiac_sign is the entry of the list at index floor(degree / 30), from 0
InBand(degree, zodiac_sign) ==
    \E i \in 0..(Len(signs) - 1) :
        /\ 30 * i <= degree /\ degree < 30 * (i + 1)
        /\ zodiac_sign = signs[i + 1]

SignCallDone(fn) == call.pc = "done" /\ call.fn = fn

\* C11: for a degree in [0, 360) get_zodiac_sign returns the entry of the
\* twelve-sign list at index floor(degree / 30): one of the twelve signs, the
\* first for 0, the last in [330, 360), never an earlier sign for a larger
\* degree; and every degree a chart function stores has its stored sign by
\* this rule.
C11_SignByBand ==
    /\ SignCallDone("get_zodiac_sign") =>
           /\ Len(signs) = 12
           /\ call.ret.raised = None
           /\ \E i \in 1..Len(signs) : call.ret.value = signs[i]
           /\ InBand(call.arg, call.ret.value)
           /\ call.arg = 0 => call.ret.value = signs[1]
           /\ call.arg >= 330 => call.ret.value = signs[Len(signs)]
           /\ call.prev # <<>> =>
                  /\ call.prev[1].arg < call.arg
                  /\ SignIndex(call.prev[1].sign) <= SignIndex(call.ret.value)
    /\ (SignCallDone("calculate_planet_positions") /\ call.ret.raised = None) =>
           \A name \in PlanetNames :
               /\ call.ret.value[name].degree \in Degrees
               /\ InBand(call.ret.value[name].degree, call.ret.value[name].zodiac_sign)
    /\ (SignCallDone("calculate_ascendant") /\ call.ret.raised = None) =>
           /\ call.ret.value[1] \in Degrees
           /\ InBand(call.ret.value[1], call.ret.value[2])

C11_Witness ==
    /\ SignCallDone("get_zodiac_sign")
    /\ call.arg >= 330 /\ call.ret.value = "Ryby"
    /\ call.prev # <<>> /\ call.prev[1].arg < 330 /\ call.prev[1].sign = "Vodoley"

(***************************************************************************)
(* The birth_place branch of handle_message, step by step, with the        *)
(* handlers of the users scheduled cooperatively on one event loop: the    *)
(* handler that runs keeps the loop until it reaches an await, and the     *)
(* handlers of other users run only then.  passes[u].observer is the       *)
(* observer the handler of u passes to swe.set_topo, sets counts its calls *)
(* of swe.set_topo and reads is the observer in force at each swe.calc_ut. *)
(***************************************************************************)
\* AwaitPoints with an await in the loop over the planets as well
AwaitPoints_in_loop == {"reply", "calc_ut"}

\* the steps a handler is suspended before: await update.message.reply_text
AwaitPoints == {"reply"}

PassDates == {validate_date(t).value : t \in {Txt_Old, Txt_Leap}}
PassTime == validate_time(Txt_1430).value

\* u may take a step: it holds the loop, or the loop is free and u is
\* suspended at an await or has an update to handle
MayRun(u) ==
    \/ running = u
    \/ running = None /\ passes[u].pc \in AwaitPoints \cup {"idle"}

\* the handler of u goes on to step pc as p: it yields the loop at an await
Goes(u, p) ==
    /\ passes' = [passes EXCEPT ![u] = p]
    /\ running' = IF p.pc \in AwaitPoints THEN None ELSE u

\* handle_message up to swe.julday in calculate_planet_positions
PassBegin(u) ==
    /\ MayRun(u) /\ passes[u].pc = "idle"
    /\ \E birth_place \in PlaceInputs, birth_date \in PassDates :
           LET c == get_coordinates(birth_place)
               dt == strptime_iso(birth_date.year, birth_date.month, birth_date.day,
                                  PassTime[1], PassTime[2])
           IN  Goes(u, IF c.raised # None
                       THEN [IdlePass EXCEPT !.pc = "reply", !.date = birth_date,
                                             !.raised = c.raised]
                       ELSE IF dt.raised # None
                       THEN [IdlePass EXCEPT !.pc = "reply", !.date = birth_date,
                                             !.observer = <<c.value[2], c.value[1], 0>>,
                                             !.raised = dt.raised]
                       ELSE [IdlePass EXCEPT !.pc = "set_topo", !.date = birth_date,
                                             !.observer = <<c.value[2], c.value[1], 0>>])
    /\ UNCHANGED <<user_data, topo, last, accepted, keyboard, call>>

\* swe.set_topo(longitude, latitude, 0)
PassSetTopo(u) ==
    /\ MayRun(u) /\ passes[u].pc = "set_topo"
    /\ topo' = passes[u].observer
    /\ Goes(u, [passes[u] EXCEPT !.pc = "calc_ut", !.sets = @ + 1])
    /\ UNCHANGED <<user_data, last, accepted, keyboard, call>>

\* one turn of the loop: swe.calc_ut(julian_day, planet_index)
PassCalc(u) ==
    /\ MayRun(u) /\ passes[u].pc = "calc_ut"
    /\ LET reads == Append(passes[u].reads, topo)
       IN  Goes(u, [passes[u] EXCEPT !.reads = reads,
                                     !.pc = IF Len(reads) = Len(planets) THEN "houses"
                                            ELSE "calc_ut"])
    /\ UNCHANGED <<user_data, topo, last, accepted, keyboard, call>>

\* calculate_ascendant, then the chart is stored and the keyboard built
PassHouses(u) ==
    /\ MayRun(u) /\ passes[u].pc = "houses"
    /\ LET p == passes[u]
           asc == calculate_ascendant(p.date.year, p.date.month, p.date.day,
                                      PassTime[1], PassTime[2],
                                      p.observer[2], p.observer[1])
       IN  Goes(u, [p EXCEPT !.pc = "reply", !.raised = asc.raised])
    /\ UNCHANGED <<user_data, topo, last, accepted, keyboard, call>>

\* await update.message.reply_text(...) returns and the handler ends
PassReply(u) ==
    /\ MayRun(u) /\ passes[u].pc = "reply"
    /\ passes' = [passes EXCEPT ![u] = IdlePass]
    /\ running' = None
    /\ UNCHANGED <<user_data, topo, last, accepted, keyboard, call>>

NextPass ==
    \E u \in Users :
        \/ PassBegin(u)
        \/ PassSetTopo(u)
        \/ PassCalc(u)
        \/ PassHouses(u)
        \/ PassReply(u)

SpecPass == Init /\ [][NextPass]_vars

\* u is between its swe.set_topo and its tenth swe.calc_ut
InLoop(u) == passes[u].pc = "calc_ut"

\* the handler of u has called swe.set_topo in this step
SetsTopo(u) == passes'[u].sets > passes[u].sets

PassOrder ==
    \A u \in Users :
        LET p == passes[u]
        IN  /\ p.sets <= 1
            /\ p.pc \in {"calc_ut", "houses"} => p.sets = 1
            /\ p.reads # <<>> => p.sets = 1
            /\ Len(p.reads) <= Len(planets)
            /\ (p.pc = "houses" \/ (p.pc = "reply" /\ p.sets = 1)) =>
                   Len(p.reads) = Len(planets)
            /\ \A i \in 1..Len(p.reads) : p.reads[i] = p.observer
            /\ InLoop(u) => topo = p.observer

\* C16: a pass sets the observer once, before its first swe.calc_ut, and with
\* handlers that give up the event loop only at their awaits no handler of
\* another user sets the observer between that set and the pass's tenth
\* swe.calc_ut: each of the ten calls finds the observer of its own pass.
C16_ObserverSetOncePerPass ==
    /\ []PassOrder
    /\ [][\A u, v \in Users : (InLoop(u) /\ v # u) => ~SetsTopo(v)]_vars

C16_Witness ==
    \E u, v \in Users :
        /\ passes[u].pc = "reply" /\ passes[u].sets = 1
        /\ Len(passes[u].reads) = Len(planets)
        /\ passes[v].pc = "reply" /\ passes[v].sets = 1
        /\ passes[v].observer # passes[u].observer
        /\ topo = passes[v].observer

=============================================================================
